---- MODULE Spec2Model ----
(***************************************************************************)
(* A model of src/app.py: the multi-backend SQL gateway.                   *)
(*                                                                         *)
(*   - startup_create_pools builds app.state.db_pools from the environment *)
(*   - GET /sqlquery/ runs verify_api_key, then sqlquery: format check,    *)
(*     create_async_connection, classification, execution, encoding,      *)
(*     the except/finally block that releases the pooled connection        *)
(*   - the remove_temp_file middleware, then the transmission of the       *)
(*     response to the client                                              *)
(*                                                                         *)
(* Three specifications share the variables: SpecStartup (the startup loop *)
(* over every environment), Spec (requests served concurrently by the      *)
(* pools one startup produced) and SpecSingle (one request on its own,     *)
(* over a wider set of inputs).                                            *)
(***************************************************************************)
EXTENDS Integers, Sequences, FiniteSets, TLC

VARIABLES
    env,          \* cloud -> what its connection-URI variable holds
    db_pools,     \* app.state.db_pools: configured cloud -> db_type
    startup_pc,   \* "init" | "loop" | "done" | "raised"
    startup_i,    \* position of the startup loop in db_uri_env_map
    pool,         \* cloud -> sequence of pooled connections (holder, session)
    pc,           \* request -> position in its handling
    req,          \* request -> the inputs it carries
    connection,   \* request -> the local variable `connection` of sqlquery
    db_type,      \* request -> the local variable `db_type` of sqlquery
    rows,         \* request -> the local variable `rows` of sqlquery
    exc,          \* request -> the exception in flight, if any
    resp,         \* request -> the response object produced
    tmpfile,      \* request -> state of the transient CSV file
    transmit,     \* request -> "none" | "ok" | "failed": the send to the client
    log,          \* request -> history: the steps taken, in order
    sessionAt,    \* request -> history: session settings when its SQL ran
    misuse,       \* history: a connection was used by a request not holding it
    failed,       \* request -> history: the best-effort steps that failed
    shutdown_pc,  \* "idle" | "loop" | "done" | "raised"
    closed        \* shutdown: the pools a close was attempted on, in order

vars == <<env, db_pools, startup_pc, startup_i, pool, pc, req, connection,
          db_type, rows, exc, resp, tmpfile, transmit, log, sessionAt, misuse,
          failed, shutdown_pc, closed>>

\* the registry and the position of the startup and shutdown handlers
lifeVars == <<env, db_pools, startup_pc, startup_i, shutdown_pc, closed>>

startupVars == <<lifeVars, pool>>

requestVars == <<pc, req, connection, db_type, rows, exc, resp, tmpfile,
                 transmit, log, sessionAt, misuse, failed>>

(***************************************************************************)
(* Bounds of the model.                                                    *)
(***************************************************************************)
\* number of requests in flight at once
NumRequests == 2
\* largest true result of a data-returning statement
MaxRows == 3

(***************************************************************************)
(* Program configuration (environment-driven; scaled to the model).        *)
(***************************************************************************)
\* DB_POOL_MAX_SIZE: connections per pool
DB_POOL_MAX_SIZE == 1
\* MAX_JSON_ROWS
max_json_rows == 1
\* MAX_CSV_ROWS
max_csv_rows == 2

API_KEY == "key"
AUTH_MISSING_HEADER_MSG == "Missing Authorization header"
AUTH_INVALID_SCHEME_MSG == "Invalid auth scheme, use 'Bearer <token>'"
AUTH_INVALID_KEY_MSG == "Invalid API key"
QUERY_SUCCESS_MSG == "Query executed successfully"
INVALID_FORMAT_MSG == "Invalid format. Use 'json' or 'csv'."

Requests == 1..NumRequests

Min(a, b) == IF a < b THEN a ELSE b

(***************************************************************************)
(* Startup: startup_create_pools and _pg_pool_init.                        *)
(***************************************************************************)
\* the keys of db_uri_env_map, in iteration order
CloudOrder == <<"aiven_postgres", "aiven_mysql", "neon_postgres", "supabase_postgres">>

Clouds == {CloudOrder[i] : i \in 1..Len(CloudOrder)}

\* an environment variable: unset (or empty), or a URI that urlparse accepts
\* or rejects (it raises ValueError, e.g. on an unbalanced "[" in the host),
\* with its scheme and whether the driver manages to create the pool
Unset == [set |-> FALSE, parses |-> TRUE, scheme |-> "", creates |-> FALSE]

BadUri == [set |-> TRUE, parses |-> FALSE, scheme |-> "", creates |-> FALSE]

Uri(s, ok) == [set |-> TRUE, parses |-> TRUE, scheme |-> s, creates |-> ok]

EnvValues ==
    {Unset, BadUri, Uri("sqlite", FALSE)}
        \cup {Uri(s, ok) : s \in {"postgresql", "mysql"}, ok \in BOOLEAN}

\* "postgres" in scheme / "mysql" in scheme, over the schemes of the model
HasPostgres(scheme) == scheme \in {"postgres", "postgresql"}

HasMysql(scheme) == scheme \in {"mysql"}

\* a connection as the driver opens it: nobody holds it, default session
NewConn ==
    [holder |-> 0, read_only |-> FALSE, statement_timeout |-> FALSE,
     max_execution_time |-> FALSE]

\* _pg_pool_init: the init hook asyncpg runs once on each new connection
PgPoolInit(conn) ==
    [conn EXCEPT !.read_only = TRUE, !.statement_timeout = TRUE]

Put(f, k, v) == [x \in DOMAIN f \cup {k} |-> IF x = k THEN v ELSE f[x]]

NoPools == [c \in {} |-> "none"]

EmptyPool == [c \in Clouds |-> <<>>]

\* one iteration of the loop over db_uri_env_map, for backend `cloud` whose
\* variable holds `e`: the registry, the pools and whether it raised
StartupIterate(e, cloud, dp, pl) ==
    CASE ~e.set ->
            [db_pools |-> dp, pool |-> pl, raised |-> FALSE]
      [] e.set /\ ~e.parses ->
            \* urlparse is called before the try block
            [db_pools |-> dp, pool |-> pl, raised |-> TRUE]
      [] e.set /\ e.parses /\ HasPostgres(e.scheme) /\ e.creates ->
            [db_pools |-> Put(dp, cloud, "postgresql"),
             pool |-> [pl EXCEPT ![cloud] =
                          [k \in 1..DB_POOL_MAX_SIZE |-> PgPoolInit(NewConn)]],
             raised |-> FALSE]
      [] e.set /\ e.parses /\ ~HasPostgres(e.scheme) /\ HasMysql(e.scheme)
               /\ e.creates ->
            [db_pools |-> Put(dp, cloud, "mysql"),
             pool |-> [pl EXCEPT ![cloud] =
                          [k \in 1..DB_POOL_MAX_SIZE |-> NewConn]],
             raised |-> FALSE]
      [] OTHER ->
            \* unsupported scheme, or create_pool raised: logged, loop goes on
            [db_pools |-> dp, pool |-> pl, raised |-> FALSE]

\* the body of the for loop, as a step of the startup handler
StartupStep ==
    /\ startup_pc = "loop"
    /\ LET cloud == CloudOrder[startup_i]
           res == StartupIterate(env[cloud], cloud, db_pools, pool)
       IN  /\ db_pools' = res.db_pools
           /\ pool' = res.pool
           /\ startup_pc' = IF res.raised THEN "raised"
                            ELSE IF startup_i = Len(CloudOrder) THEN "done"
                            ELSE "loop"
           /\ startup_i' = IF res.raised THEN startup_i ELSE startup_i + 1
    /\ UNCHANGED <<env, shutdown_pc, closed, requestVars>>

\* the whole loop, from backend i on
RECURSIVE RunStartup(_, _, _, _)
RunStartup(e, i, dp, pl) ==
    IF i > Len(CloudOrder) THEN [db_pools |-> dp, pool |-> pl, raised |-> FALSE]
    ELSE LET res == StartupIterate(e[CloudOrder[i]], CloudOrder[i], dp, pl)
         IN  IF res.raised THEN res
             ELSE RunStartup(e, i + 1, res.db_pools, res.pool)

(***************************************************************************)
(* Shutdown: shutdown_close_pools closes the pools of the registry.        *)
(***************************************************************************)
\* pools.items(): the registered backends in the order startup inserted them
PoolItems == SelectSeq(CloudOrder, LAMBDA c : c \in DOMAIN db_pools)

\* one iteration of shutdown_close_pools with the close outside any try: an
\* error of the close leaves the handler
ShutdownStepUnguarded ==
    /\ startup_pc = "done"
    /\ shutdown_pc \in {"idle", "loop"}
    /\ IF Len(closed) < Len(PoolItems)
       THEN \E ok \in BOOLEAN :
               /\ closed' = Append(closed, [cloud |-> PoolItems[Len(closed) + 1],
                                            ok |-> ok])
               /\ shutdown_pc' = IF ok THEN "loop" ELSE "raised"
       ELSE /\ shutdown_pc' = "done"
            /\ UNCHANGED closed
    /\ UNCHANGED <<env, db_pools, startup_pc, startup_i, pool, requestVars>>

\* one iteration of the loop of shutdown_close_pools: the pool of the next
\* backend is closed inside try/except Exception, an error of the close is
\* logged; after the last backend the handler returns
ShutdownStep ==
    /\ startup_pc = "done"
    /\ shutdown_pc \in {"idle", "loop"}
    /\ IF Len(closed) < Len(PoolItems)
       THEN \E ok \in BOOLEAN :
               /\ closed' = Append(closed, [cloud |-> PoolItems[Len(closed) + 1],
                                            ok |-> ok])
               /\ shutdown_pc' = "loop"
       ELSE /\ shutdown_pc' = "done"
            /\ UNCHANGED closed
    /\ UNCHANGED <<env, db_pools, startup_pc, startup_i, pool, requestVars>>

(***************************************************************************)
(* Requests: their inputs, and the pure parts of verify_api_key and        *)
(* sqlquery.                                                               *)
(***************************************************************************)
\* Authorization headers: absent or empty (`not auth`), or "<scheme> <token>"
\* as partition(" ") splits it
NoHeader == <<>>

\* a token with a character outside ASCII (header bytes are read as latin-1)
NonAsciiToken == "cl\\xe9"

AuthHeaders ==
    {NoHeader, <<"Basic", API_KEY>>, <<"Bearer", "wrong">>, <<"Bearer", API_KEY>>}

\* more of them: an empty token, the scheme in other letter cases, and a
\* token that is not ASCII
AllAuthHeaders ==
    AuthHeaders \cup {<<"Bearer", "">>, <<"bearer", API_KEY>>, <<"BEARER", "wrong">>,
                      <<"Bearer", NonAsciiToken>>}

\* str.lower() on the words of the model
LowerWord(w) ==
    CASE w = "Bearer" -> "bearer"
      [] w = "BEARER" -> "bearer"
      [] w = "Basic" -> "basic"
      [] w = "CSV" -> "csv"
      [] w = "JSON" -> "json"
      [] w = "XML" -> "xml"
      [] OTHER -> w

Formats == {"json", "CSV", "xml"}

\* "" is the empty format of `?format=`, which `format or "json"` takes as json
AllFormats == Formats \cup {"", "JSON", "csv", "XML"}

\* backend names a request may carry: with a pool (one per engine) or without
RequestClouds == {"neon_postgres", "aiven_mysql", "supabase_postgres"}

\* and names that are registered but unset, or not registered at all
AllRequestClouds == RequestClouds \cup {"aiven_postgres", "nowhere"}

\* SQL texts, as sequences of characters
Whitespace == {" ", "\t", "\n"}

LowerChar(ch) ==
    CASE ch = "S" -> "s" [] ch = "E" -> "e" [] ch = "L" -> "l"
      [] ch = "C" -> "c" [] ch = "T" -> "t" [] ch = "W" -> "w"
      [] ch = "I" -> "i" [] ch = "H" -> "h" [] ch = "N" -> "n"
      [] ch = "R" -> "r" [] ch = "O" -> "o" [] ch = "D" -> "d"
      [] ch = "X" -> "x" [] ch = "P" -> "p" [] ch = "A" -> "a"
      [] ch = "B" -> "b" [] ch = "U" -> "u"
      [] OTHER -> ch

\* str.lower()
Lower(s) == [i \in 1..Len(s) |-> LowerChar(s[i])]

\* str.strip(): drop the leading and the trailing whitespace
RECURSIVE LStrip(_)
LStrip(s) ==
    IF s # <<>> /\ Head(s) \in Whitespace THEN LStrip(Tail(s)) ELSE s

RECURSIVE RStrip(_)
RStrip(s) ==
    IF s # <<>> /\ s[Len(s)] \in Whitespace
    THEN RStrip(SubSeq(s, 1, Len(s) - 1)) ELSE s

Strip(s) == RStrip(LStrip(s))

\* str.startswith()
StartsWith(s, prefix) ==
    /\ Len(s) >= Len(prefix)
    /\ SubSeq(s, 1, Len(prefix)) = prefix

DataKeywords ==
    { <<"s", "e", "l", "e", "c", "t">>,
      <<"s", "h", "o", "w">>,
      <<"d", "e", "s", "c", "r", "i", "b", "e">>,
      <<"e", "x", "p", "l", "a", "i", "n">>,
      <<"w", "i", "t", "h">> }

\* is_data_query without the strip() of the statement
IsDataQueryUnstripped(sqlquery) ==
    LET query_lower == Lower(sqlquery)
    IN  \E kw \in DataKeywords : StartsWith(query_lower, kw)

\* is_data_query of sqlquery
IsDataQuery(sqlquery) ==
    LET query_lower == Lower(Strip(sqlquery))
    IN  \E kw \in DataKeywords : StartsWith(query_lower, kw)

Queries ==
    { <<" ", "S", "e", "l", "e", "c", "t", " ", "1">>,
      <<"i", "n", "s", "e", "r", "t">> }

AllQueries ==
    Queries \cup
    { <<"w", "i", "t", "h", "\n">>,
      <<"\t", "S", "H", "O", "W">>,
      <<"e", "x", "p", "l", "a", "i", "n">>,
      <<"D", "e", "s", "c", "r", "i", "b", "e", " ">>,
      <<"s", "e", "l", "e", "c", "t", "i", "o", "n">>,
      <<"(", "s", "e", "l", "e", "c", "t">>,
      <<"U", "P", "D", "A", "T", "E">>,
      <<"s", "e", "l">>,
      <<" ">> }

\* the requests the concurrent specification draws from
RequestInputs ==
    [auth : AuthHeaders, format : Formats, cloud : RequestClouds,
     sqlquery : Queries]

\* the requests the single-request specification draws from
AllRequestInputs ==
    [auth : AllAuthHeaders, format : AllFormats, cloud : AllRequestClouds,
     sqlquery : AllQueries]

NoRequest == [auth |-> NoHeader, format |-> "", cloud |-> "", sqlquery |-> <<>>]

\* exceptions
NoExc == [type |-> "none"]

HTTPException(status_code, detail) ==
    [type |-> "HTTPException", status_code |-> status_code, detail |-> detail]

DriverError(msg) == [type |-> "Exception", msg |-> msg]

CancelledError == [type |-> "CancelledError"]

NoPoolDetail(cloud) == <<"No pool configured for cloud '", cloud, "'">>

StatusText(n) ==
    CASE n = 400 -> "400" [] n = 401 -> "401" [] n = 403 -> "403"
      [] n = 500 -> "500" [] OTHER -> "?"

\* str(e) replaced by a fixed text
StrGeneric(e) == <<"Internal Server Error">>

\* str(e): an HTTPException prints as "<status_code>: <detail>", any other
\* exception as its message
Str(e) ==
    IF e.type = "HTTPException"
    THEN <<StatusText(e.status_code), ": ">> \o e.detail
    ELSE <<e.msg>>

\* responses
NoResp == [kind |-> "none"]

ErrorResponse(status_code, detail) ==
    [kind |-> "json", status_code |-> status_code, body |-> [detail |-> detail]]

\* return {"status": QUERY_SUCCESS_MSG}
AckResponse ==
    [kind |-> "json", status_code |-> 200, body |-> [status |-> QUERY_SUCCESS_MSG]]

\* JsonResponse with the cap compared by >= instead of >
JsonResponseOffByOne(all_rows) ==
    LET truncated == Len(all_rows) >= max_json_rows
        kept == IF truncated THEN SubSeq(all_rows, 1, max_json_rows) ELSE all_rows
    IN  [kind |-> "json", status_code |-> 200,
         body |-> [rows |-> kept, truncated |-> truncated]]

\* the JSON branch of sqlquery, from "Apply row limits" to the JSONResponse
JsonResponse(all_rows) ==
    LET truncated == Len(all_rows) > max_json_rows
        kept == IF truncated THEN SubSeq(all_rows, 1, max_json_rows) ELSE all_rows
    IN  [kind |-> "json", status_code |-> 200,
         body |-> [rows |-> kept, truncated |-> truncated]]

\* csv_rows of sqlquery
CsvRows(all_rows) ==
    IF Len(all_rows) > max_csv_rows THEN SubSeq(all_rows, 1, max_csv_rows)
    ELSE all_rows

\* the columns of a result, in the order the backend returns them
ColumnOrder == <<"x", "y">>

\* row.keys(): the keys of a row dict, in their order
Keys(row) == SelectSeq(ColumnOrder, LAMBDA k : k \in DOMAIN row)

Digit(d) ==
    CASE d = 0 -> "0" [] d = 1 -> "1" [] d = 2 -> "2" [] d = 3 -> "3"
      [] d = 4 -> "4" [] d = 5 -> "5" [] d = 6 -> "6" [] d = 7 -> "7"
      [] d = 8 -> "8" [] d = 9 -> "9"

\* str() of a number, as the csv writer formats a cell: its decimal digits
RECURSIVE DecimalText(_)
DecimalText(n) ==
    IF n < 10 THEN <<Digit(n)>> ELSE DecimalText(n \div 10) \o <<Digit(n % 10)>>

\* writer.writeheader(): the line of the field names (each a single letter)
HeaderLine(fieldnames) == [j \in 1..Len(fieldnames) |-> <<fieldnames[j]>>]

\* writer.writerow(row): the line of the cells of the row, by field name
DataLine(fieldnames, row) ==
    [j \in 1..Len(fieldnames) |-> DecimalText(row[fieldnames[j]])]

\* CsvLines with no call of writer.writeheader()
CsvLinesNoHeader(csv_rows) ==
    IF csv_rows # <<>>
    THEN LET fieldnames == Keys(csv_rows[1])
         IN  [i \in 1..Len(csv_rows) |-> DataLine(fieldnames, csv_rows[i])]
    ELSE <<>>

\* what csv.DictWriter leaves in csv_buffer: the header line of the keys of
\* the first row and one line per row, or nothing at all for an empty result
CsvLines(csv_rows) ==
    IF csv_rows # <<>>
    THEN LET fieldnames == Keys(csv_rows[1])
         IN  <<HeaderLine(fieldnames)>> \o
             [i \in 1..Len(csv_rows) |-> DataLine(fieldnames, csv_rows[i])]
    ELSE <<>>

\* the answer of the server to an exception no handler took
InternalServerError ==
    [kind |-> "text", status_code |-> 500, body |-> "Internal Server Error"]

\* FileResponse(path=temp_file_path, ...)
FileResponse ==
    [kind |-> "file", status_code |-> 200]

NoFile == [state |-> "none", lines |-> <<>>]

NoConn == <<>>

NoSession == [ran |-> FALSE]

(***************************************************************************)
(* The pools as the requests see them.                                     *)
(***************************************************************************)
\* the free connections of a pool
FreeConns(cloud) == {k \in 1..Len(pool[cloud]) : pool[cloud][k].holder = 0}

\* the connection pool.acquire() handed to request r and not yet returned
HeldBy(r, cloud) == CHOOSE k \in 1..Len(pool[cloud]) : pool[cloud][k].holder = r

\* whoever holds connection handle c = <<cloud, k>> in its pool
Holder(c) == pool[c[1]][c[2]].holder

\* the session settings of connection handle c
Session(c) ==
    [ran |-> TRUE,
     read_only |-> pool[c[1]][c[2]].read_only,
     statement_timeout |-> pool[c[1]][c[2]].statement_timeout,
     max_execution_time |-> pool[c[1]][c[2]].max_execution_time]

\* pool.release(connection). asyncpg resets the session of a connection it
\* takes back (Connection.reset: "RESET ALL"), which puts every setting a SET
\* had changed back to its default; a release that raises drops the
\* connection, and the pool opens a new one in its place.
Released(conn, type, ok) ==
    IF ok
    THEN IF type = "postgresql"
         THEN [conn EXCEPT !.holder = 0, !.read_only = FALSE,
                           !.statement_timeout = FALSE]
         ELSE [conn EXCEPT !.holder = 0]
    ELSE IF type = "postgresql" THEN PgPoolInit(NewConn) ELSE NewConn

\* fmt of sqlquery
Fmt(format) == LowerWord(IF format = "" THEN "json" ELSE format)

\* verify_api_key: the exception it raises, or none
\* verify_api_key with the scheme compared as it was sent
VerifyApiKeyResultCaseSensitive(auth) ==
    IF auth = NoHeader
    THEN HTTPException(401, <<AUTH_MISSING_HEADER_MSG>>)
    ELSE LET scheme == auth[1]
             token == auth[2]
         IN  IF scheme # "Bearer" \/ token = ""
             THEN HTTPException(401, <<AUTH_INVALID_SCHEME_MSG>>)
             ELSE IF token = NonAsciiToken
             THEN DriverError("comparing strings with non-ASCII characters is not supported")
             ELSE IF token # API_KEY
             THEN HTTPException(403, <<AUTH_INVALID_KEY_MSG>>)
             ELSE NoExc

\* verify_api_key: what it raises, NoExc when it returns.
\* secrets.compare_digest raises TypeError on a str that is not ASCII.
VerifyApiKeyResult(auth) ==
    IF auth = NoHeader
    THEN HTTPException(401, <<AUTH_MISSING_HEADER_MSG>>)
    ELSE LET scheme == auth[1]
             token == auth[2]
         IN  IF LowerWord(scheme) # "bearer" \/ token = ""
             THEN HTTPException(401, <<AUTH_INVALID_SCHEME_MSG>>)
             ELSE IF token = NonAsciiToken
             THEN DriverError("comparing strings with non-ASCII characters is not supported")
             ELSE IF token # API_KEY
             THEN HTTPException(403, <<AUTH_INVALID_KEY_MSG>>)
             ELSE NoExc

\* the true result of a data-returning statement: n rows, in order, each a
\* dict over the columns of the result
ResultRows(n) == [i \in 1..n |-> [x |-> i, y |-> 10 * i]]

Logged(r, events) == [log EXCEPT ![r] = @ \o events]

(***************************************************************************)
(* GET /sqlquery/                                                          *)
(***************************************************************************)
\* the event loop runs one task at a time: while a request is inside blocking
\* code, no other request is given a step
OnLoop(r) == \A q \in Requests \ {r} : pc[q] # "materialize"

\* a request arrives
Receive(r) ==
    /\ OnLoop(r)
    /\ startup_pc = "done"
    /\ pc[r] = "idle"
    /\ \E q \in RequestInputs : req' = [req EXCEPT ![r] = q]
    /\ pc' = [pc EXCEPT ![r] = "verify"]
    /\ UNCHANGED <<startupVars, failed, connection, db_type, rows, exc, resp, tmpfile,
                   transmit, log, sessionAt, misuse>>

\* a request arrives, out of the wider set of inputs
ReceiveAny(r) ==
    /\ OnLoop(r)
    /\ startup_pc = "done"
    /\ pc[r] = "idle"
    /\ \E q \in AllRequestInputs : req' = [req EXCEPT ![r] = q]
    /\ pc' = [pc EXCEPT ![r] = "verify"]
    /\ UNCHANGED <<startupVars, failed, connection, db_type, rows, exc, resp, tmpfile,
                   transmit, log, sessionAt, misuse>>

\* the dependency verify_api_key; an HTTPException becomes the response, any
\* other exception passes through the middlewares to the server's 500
VerifyApiKey(r) ==
    /\ OnLoop(r)
    /\ pc[r] = "verify"
    /\ LET e == VerifyApiKeyResult(req[r].auth)
       IN  CASE e = NoExc ->
                 /\ pc' = [pc EXCEPT ![r] = "handler"]
                 /\ UNCHANGED resp
             [] e.type = "HTTPException" ->
                 /\ pc' = [pc EXCEPT ![r] = "middleware"]
                 /\ resp' = [resp EXCEPT ![r] = ErrorResponse(e.status_code, e.detail)]
             [] OTHER ->
                 /\ pc' = [pc EXCEPT ![r] = "send"]
                 /\ resp' = [resp EXCEPT ![r] = InternalServerError]
    /\ UNCHANGED <<startupVars, failed, req, connection, db_type, rows, exc, tmpfile,
                   transmit, log, sessionAt, misuse>>

\* sqlquery entering its try block without the format check
SqlqueryEntryUnchecked(r) ==
    /\ OnLoop(r)
    /\ pc[r] = "handler"
    /\ pc' = [pc EXCEPT ![r] = "acquire"]
    /\ UNCHANGED <<startupVars, failed, req, connection, db_type, rows, exc, tmpfile,
                   transmit, log, sessionAt, misuse, resp>>

\* sqlquery up to the try block: the format check
SqlqueryEntry(r) ==
    /\ OnLoop(r)
    /\ pc[r] = "handler"
    /\ IF Fmt(req[r].format) \notin {"json", "csv"}
       THEN /\ pc' = [pc EXCEPT ![r] = "middleware"]
            /\ resp' = [resp EXCEPT ![r] = ErrorResponse(400, <<INVALID_FORMAT_MSG>>)]
       ELSE /\ pc' = [pc EXCEPT ![r] = "acquire"]
            /\ UNCHANGED resp
    /\ UNCHANGED <<startupVars, failed, req, connection, db_type, rows, exc, tmpfile,
                   transmit, log, sessionAt, misuse>>

\* what `meta = pools[cloud]` would raise without the membership test before
\* it: KeyError(cloud), which prints as the quoted name
NoPoolKeyError(cloud) == DriverError(<<"'", cloud, "'">>)

\* create_async_connection, cloud not in pools: the exception raised
NoPoolError(cloud) == HTTPException(500, NoPoolDetail(cloud))

\* create_async_connection up to the return of pool.acquire(). It waits while
\* the pool has no free connection.
Acquire(r) ==
    /\ OnLoop(r)
    /\ pc[r] = "acquire"
    /\ LET cloud == req[r].cloud
       IN  \/ /\ cloud \notin DOMAIN db_pools
              /\ exc' = [exc EXCEPT ![r] = NoPoolError(cloud)]
              /\ pc' = [pc EXCEPT ![r] = "finally"]
              /\ UNCHANGED <<pool, connection, db_type, log>>
           \/ /\ cloud \in DOMAIN db_pools
              /\ exc' = [exc EXCEPT ![r] = DriverError("acquire failed")]
              /\ pc' = [pc EXCEPT ![r] = "finally"]
              /\ UNCHANGED <<pool, connection, db_type, log>>
           \/ /\ cloud \in DOMAIN db_pools
              /\ \E k \in FreeConns(cloud) :
                    /\ pool' = [pool EXCEPT ![cloud][k].holder = r]
                    /\ IF db_pools[cloud] = "mysql"
                       THEN /\ pc' = [pc EXCEPT ![r] = "mysql_timeout"]
                            /\ UNCHANGED <<connection, db_type>>
                       ELSE /\ pc' = [pc EXCEPT ![r] = "execute"]
                            /\ connection' = [connection EXCEPT ![r] = <<cloud, k>>]
                            /\ db_type' = [db_type EXCEPT ![r] = "postgresql"]
              /\ log' = Logged(r, <<"acquire">>)
              /\ UNCHANGED exc
    /\ UNCHANGED <<lifeVars, failed, req, rows, resp,
                   tmpfile, transmit, sessionAt, misuse>>

\* MysqlTimeout with an except branch that hands the connection back to the
\* pool and still returns it
MysqlTimeoutReleasing(r) ==
    /\ OnLoop(r)
    /\ pc[r] = "mysql_timeout"
    /\ LET cloud == req[r].cloud
           k == HeldBy(r, cloud)
       IN  /\ \/ pool' = [pool EXCEPT ![cloud][k].max_execution_time = TRUE]
              \/ pool' = [pool EXCEPT ![cloud][k].holder = 0]
           /\ connection' = [connection EXCEPT ![r] = <<cloud, k>>]
           /\ db_type' = [db_type EXCEPT ![r] = "mysql"]
    /\ pc' = [pc EXCEPT ![r] = "execute"]
    /\ UNCHANGED <<lifeVars, failed, req, rows, exc, resp,
                   tmpfile, transmit, log, sessionAt, misuse>>

\* MysqlTimeout without the try/except around SET SESSION: a failure of the
\* statement leaves create_async_connection as the request's error
MysqlTimeoutRaising(r) ==
    /\ OnLoop(r)
    /\ pc[r] = "mysql_timeout"
    /\ LET cloud == req[r].cloud
           k == HeldBy(r, cloud)
       IN  \/ /\ pool' = [pool EXCEPT ![cloud][k].max_execution_time = TRUE]
              /\ connection' = [connection EXCEPT ![r] = <<cloud, k>>]
              /\ db_type' = [db_type EXCEPT ![r] = "mysql"]
              /\ pc' = [pc EXCEPT ![r] = "execute"]
              /\ UNCHANGED <<failed, exc>>
           \/ /\ failed' = [failed EXCEPT ![r] = @ \cup {"timeout"}]
              /\ exc' = [exc EXCEPT ![r] = DriverError("SET SESSION failed")]
              /\ pc' = [pc EXCEPT ![r] = "finally"]
              /\ UNCHANGED <<pool, connection, db_type>>
    /\ UNCHANGED <<lifeVars, req, rows, resp,
                   tmpfile, transmit, log, sessionAt, misuse>>

\* create_async_connection, mysql: SET SESSION MAX_EXECUTION_TIME inside
\* try/except Exception, then the return to sqlquery
MysqlTimeout(r) ==
    /\ OnLoop(r)
    /\ pc[r] = "mysql_timeout"
    /\ LET cloud == req[r].cloud
           k == HeldBy(r, cloud)
       IN  /\ \E ok \in BOOLEAN :
                /\ pool' = [pool EXCEPT ![cloud][k].max_execution_time = ok \/ @]
                /\ failed' = [failed EXCEPT ![r] =
                                 IF ok THEN @ ELSE @ \cup {"timeout"}]
           /\ connection' = [connection EXCEPT ![r] = <<cloud, k>>]
           /\ db_type' = [db_type EXCEPT ![r] = "mysql"]
    /\ pc' = [pc EXCEPT ![r] = "execute"]
    /\ UNCHANGED <<lifeVars, req, rows, exc, resp,
                   tmpfile, transmit, log, sessionAt, misuse>>

\* the task is cancelled while it awaits the driver: CancelledError is not an
\* Exception, so neither `except Exception` catches it
Cancel(r) ==
    /\ OnLoop(r)
    /\ \/ pc[r] \in {"mysql_timeout", "execute", "commit", "fetch"}
       \/ pc[r] = "acquire" /\ req[r].cloud \in DOMAIN db_pools
    /\ exc' = [exc EXCEPT ![r] = CancelledError]
    /\ pc' = [pc EXCEPT ![r] = "finally"]
    /\ UNCHANGED <<startupVars, failed, req, connection, db_type, rows, resp, tmpfile,
                   transmit, log, sessionAt, misuse>>

\* sqlquery: classification, then the statement is run on the connection
\* (cursor.execute, connection.execute or connection.fetch)
Execute(r) ==
    /\ OnLoop(r)
    /\ pc[r] = "execute"
    /\ LET c == connection[r]
           is_data_query == IsDataQuery(req[r].sqlquery)
       IN  /\ misuse' = (misuse \/ Holder(c) # r)
           /\ sessionAt' = [sessionAt EXCEPT ![r] = Session(c)]
           /\ \/ /\ exc' = [exc EXCEPT ![r] = DriverError("execute failed")]
                 /\ pc' = [pc EXCEPT ![r] = "finally"]
                 /\ log' = Logged(r, <<"execute">>)
                 /\ UNCHANGED <<rows, resp>>
              \/ /\ ~is_data_query /\ db_type[r] = "mysql"
                 /\ pc' = [pc EXCEPT ![r] = "commit"]
                 /\ log' = Logged(r, <<"execute">>)
                 /\ UNCHANGED <<rows, resp, exc>>
              \/ /\ ~is_data_query /\ db_type[r] # "mysql"
                 /\ resp' = [resp EXCEPT ![r] = AckResponse]
                 /\ pc' = [pc EXCEPT ![r] = "finally"]
                 /\ log' = Logged(r, <<"execute">>)
                 /\ UNCHANGED <<rows, exc>>
              \/ /\ is_data_query /\ db_type[r] = "mysql"
                 /\ pc' = [pc EXCEPT ![r] = "fetch"]
                 /\ log' = Logged(r, <<"execute">>)
                 /\ UNCHANGED <<rows, resp, exc>>
              \/ /\ is_data_query /\ db_type[r] # "mysql"
                 /\ \E n \in 0..MaxRows : rows' = [rows EXCEPT ![r] = ResultRows(n)]
                 /\ pc' = [pc EXCEPT ![r] = "encode"]
                 /\ log' = Logged(r, <<"execute", "fetch">>)
                 /\ UNCHANGED <<resp, exc>>
    /\ UNCHANGED <<startupVars, failed, req, connection, db_type, tmpfile, transmit>>

\* Commit without the call of connection.commit()
CommitOmitted(r) ==
    /\ OnLoop(r)
    /\ pc[r] = "commit"
    /\ resp' = [resp EXCEPT ![r] = AckResponse]
    /\ pc' = [pc EXCEPT ![r] = "finally"]
    /\ UNCHANGED <<startupVars, failed, req, connection, db_type, rows, exc, tmpfile,
                   transmit, log, sessionAt, misuse>>

\* sqlquery, non-data statement on mysql: connection.commit(), then the
\* acknowledgment
Commit(r) ==
    /\ OnLoop(r)
    /\ pc[r] = "commit"
    /\ misuse' = (misuse \/ Holder(connection[r]) # r)
    /\ \/ /\ exc' = [exc EXCEPT ![r] = DriverError("commit failed")]
          /\ UNCHANGED <<resp, log>>
       \/ /\ resp' = [resp EXCEPT ![r] = AckResponse]
          /\ log' = Logged(r, <<"commit">>)
          /\ UNCHANGED exc
    /\ pc' = [pc EXCEPT ![r] = "finally"]
    /\ UNCHANGED <<startupVars, failed, req, connection, db_type, rows, tmpfile,
                   transmit, sessionAt>>

\* Fetch with a failed fetchall() answered by running the statement again
FetchRetrying(r) ==
    /\ OnLoop(r)
    /\ pc[r] = "fetch"
    /\ misuse' = (misuse \/ Holder(connection[r]) # r)
    /\ \/ /\ pc' = [pc EXCEPT ![r] = "execute"]
          /\ UNCHANGED <<rows, log>>
       \/ /\ \E n \in 0..MaxRows : rows' = [rows EXCEPT ![r] = ResultRows(n)]
          /\ pc' = [pc EXCEPT ![r] = "encode"]
          /\ log' = Logged(r, <<"fetch">>)
    /\ UNCHANGED <<startupVars, failed, req, connection, db_type, resp, tmpfile,
                   transmit, sessionAt, exc>>

\* sqlquery, data statement on mysql: cursor.fetchall()
Fetch(r) ==
    /\ OnLoop(r)
    /\ pc[r] = "fetch"
    /\ misuse' = (misuse \/ Holder(connection[r]) # r)
    /\ \/ /\ exc' = [exc EXCEPT ![r] = DriverError("fetch failed")]
          /\ pc' = [pc EXCEPT ![r] = "finally"]
          /\ UNCHANGED <<rows, log>>
       \/ /\ \E n \in 0..MaxRows : rows' = [rows EXCEPT ![r] = ResultRows(n)]
          /\ pc' = [pc EXCEPT ![r] = "encode"]
          /\ log' = Logged(r, <<"fetch">>)
          /\ UNCHANGED exc
    /\ UNCHANGED <<startupVars, failed, req, connection, db_type, resp, tmpfile,
                   transmit, sessionAt>>

\* sqlquery from "Apply row limits" on: nothing here awaits. The JSON branch
\* up to its return; the CSV branch up to the creation of the temp file.
\* `rows` keeps the fetched rows; the capped rows go into the response.
Encode(r) ==
    /\ OnLoop(r)
    /\ pc[r] = "encode"
    /\ \/ /\ Fmt(req[r].format) = "json"
          /\ \/ /\ resp' = [resp EXCEPT ![r] = JsonResponse(rows[r])]
                /\ UNCHANGED exc
             \/ /\ exc' = [exc EXCEPT ![r] = DriverError("json.dumps failed")]
                /\ UNCHANGED resp
          /\ pc' = [pc EXCEPT ![r] = "finally"]
          /\ UNCHANGED tmpfile
       \/ /\ Fmt(req[r].format) # "json"
          /\ \/ \* csv.DictWriter or NamedTemporaryFile raises: no file yet
                /\ exc' = [exc EXCEPT ![r] = DriverError("csv failed")]
                /\ pc' = [pc EXCEPT ![r] = "finally"]
                /\ UNCHANGED tmpfile
             \/ \* the file exists (delete=False), nothing written yet
                /\ tmpfile' = [tmpfile EXCEPT ![r] = [state |-> "exists", lines |-> <<>>]]
                /\ pc' = [pc EXCEPT ![r] = "materialize"]
                /\ UNCHANGED exc
          /\ UNCHANGED resp
    /\ log' = Logged(r, <<"encode">>)
    /\ UNCHANGED <<startupVars, failed, req, connection, db_type, rows, transmit,
                   sessionAt, misuse>>

\* the CSV branch of sqlquery from temp_csv.write to the return: blocking
\* file I/O, called on the event loop
Materialize(r) ==
    /\ OnLoop(r)
    /\ pc[r] = "materialize"
    /\ \/ \* temp_csv.write raises
          /\ exc' = [exc EXCEPT ![r] = DriverError("write failed")]
          /\ UNCHANGED <<resp, tmpfile>>
       \/ /\ tmpfile' = [tmpfile EXCEPT ![r].lines = CsvLines(CsvRows(rows[r]))]
          /\ resp' = [resp EXCEPT ![r] = FileResponse]
          /\ UNCHANGED exc
    /\ pc' = [pc EXCEPT ![r] = "finally"]
    /\ UNCHANGED <<startupVars, failed, req, connection, db_type, rows, transmit,
                   log, sessionAt, misuse>>

\* Finally without the try/except around the release: an error of the
\* release replaces the response
FinallyRaising(r) ==
    /\ OnLoop(r)
    /\ pc[r] = "finally"
    /\ IF connection[r] # NoConn /\ req[r].cloud \in DOMAIN db_pools
       THEN LET cloud == req[r].cloud
                k == connection[r][2]
            IN  /\ \E ok \in BOOLEAN :
                      /\ pool' = [pool EXCEPT ![cloud][k] =
                                    Released(@, db_pools[cloud], ok)]
                      /\ failed' = [failed EXCEPT ![r] =
                                       IF ok THEN @ ELSE @ \cup {"release"}]
                      /\ resp' = [resp EXCEPT ![r] =
                            IF ~ok
                            THEN ErrorResponse(500, <<"release failed">>)
                            ELSE IF exc[r].type \in {"HTTPException", "Exception"}
                            THEN ErrorResponse(500, Str(exc[r]))
                            ELSE IF exc[r].type = "CancelledError" THEN NoResp
                            ELSE @]
                /\ log' = Logged(r, <<"release">>)
       ELSE /\ resp' = [resp EXCEPT ![r] =
                  IF exc[r].type \in {"HTTPException", "Exception"}
                  THEN ErrorResponse(500, Str(exc[r]))
                  ELSE IF exc[r].type = "CancelledError" THEN NoResp
                  ELSE @]
            /\ UNCHANGED <<pool, log, failed>>
    /\ pc' = [pc EXCEPT ![r] =
                IF exc[r].type = "CancelledError" THEN "done" ELSE "middleware"]
    /\ UNCHANGED <<lifeVars, req, connection,
                   db_type, rows, exc, tmpfile, transmit, sessionAt, misuse>>

\* the except and finally clauses of sqlquery: an Exception becomes the 500
\* response, and the connection, if the local `connection` holds one, is
\* released to the pool of `cloud`; an error of the release is logged only
Finally(r) ==
    /\ OnLoop(r)
    /\ pc[r] = "finally"
    /\ resp' = [resp EXCEPT ![r] =
                  IF exc[r].type \in {"HTTPException", "Exception"}
                  THEN ErrorResponse(500, Str(exc[r]))
                  ELSE IF exc[r].type = "CancelledError" THEN NoResp
                  ELSE @]
    /\ IF connection[r] # NoConn /\ req[r].cloud \in DOMAIN db_pools
       THEN LET cloud == req[r].cloud
                k == connection[r][2]
            IN  /\ \E ok \in BOOLEAN :
                      /\ pool' = [pool EXCEPT ![cloud][k] =
                                    Released(@, db_pools[cloud], ok)]
                      /\ failed' = [failed EXCEPT ![r] =
                                       IF ok THEN @ ELSE @ \cup {"release"}]
                /\ log' = Logged(r, <<"release">>)
       ELSE UNCHANGED <<pool, log, failed>>
    /\ pc' = [pc EXCEPT ![r] =
                IF exc[r].type = "CancelledError" THEN "done" ELSE "middleware"]
    /\ UNCHANGED <<lifeVars, req, connection,
                   db_type, rows, exc, tmpfile, transmit, sessionAt, misuse>>

\* the middleware remove_temp_file, after call_next has returned the
\* response: the file is removed when the response it sees is a FileResponse
\* (call_next may hand the middleware a wrapper of the endpoint's response)
\* and os.remove does not raise
RemoveTempFile(r) ==
    /\ OnLoop(r)
    /\ pc[r] = "middleware"
    /\ \/ /\ resp[r].kind = "file" /\ tmpfile[r].state = "exists"
          /\ \/ /\ tmpfile' = [tmpfile EXCEPT ![r].state = "removed"]
                /\ log' = Logged(r, <<"cleanup">>)
                /\ UNCHANGED failed
             \/ \* os.remove raised: logged
                /\ log' = Logged(r, <<"cleanup">>)
                /\ failed' = [failed EXCEPT ![r] = @ \cup {"cleanup"}]
                /\ UNCHANGED tmpfile
       \/ \* not a FileResponse in the middleware's eyes, or no such file
          /\ UNCHANGED <<tmpfile, log, failed>>
    /\ pc' = [pc EXCEPT ![r] = "send"]
    /\ UNCHANGED <<startupVars, req, connection, db_type, rows, exc, resp,
                   transmit, sessionAt, misuse>>

\* the server transmits the response the middleware returned; a FileResponse
\* reads its file at this point
Send(r) ==
    /\ OnLoop(r)
    /\ pc[r] = "send"
    /\ \/ /\ resp[r].kind = "file" => tmpfile[r].state = "exists"
          /\ transmit' = [transmit EXCEPT ![r] = "ok"]
       \/ transmit' = [transmit EXCEPT ![r] = "failed"]
    /\ log' = Logged(r, <<"send">>)
    /\ pc' = [pc EXCEPT ![r] = "done"]
    /\ UNCHANGED <<startupVars, failed, req, connection, db_type, rows, exc, resp,
                   tmpfile, sessionAt, misuse>>

(***************************************************************************)
(* Specifications.                                                         *)
(***************************************************************************)
\* the environment the serving specification starts its pools from
ServingEnv ==
    [c \in Clouds |->
        CASE c = "neon_postgres" -> Uri("postgresql", TRUE)
          [] c = "aiven_mysql" -> Uri("mysql", TRUE)
          [] c = "supabase_postgres" -> Uri("sqlite", FALSE)
          [] OTHER -> Unset]

InitRequests ==
    /\ pc = [r \in Requests |-> "idle"]
    /\ req = [r \in Requests |-> NoRequest]
    /\ connection = [r \in Requests |-> NoConn]
    /\ db_type = [r \in Requests |-> ""]
    /\ rows = [r \in Requests |-> <<>>]
    /\ exc = [r \in Requests |-> NoExc]
    /\ resp = [r \in Requests |-> NoResp]
    /\ tmpfile = [r \in Requests |-> NoFile]
    /\ transmit = [r \in Requests |-> "none"]
    /\ log = [r \in Requests |-> <<>>]
    /\ sessionAt = [r \in Requests |-> NoSession]
    /\ misuse = FALSE
    /\ failed = [r \in Requests |-> {}]

\* the process has started: the pools are those startup built from ServingEnv
Init ==
    /\ env = ServingEnv
    /\ LET started == RunStartup(ServingEnv, 1, NoPools, EmptyPool)
       IN  /\ db_pools = started.db_pools
           /\ pool = started.pool
    /\ startup_pc = "done"
    /\ startup_i = Len(CloudOrder) + 1
    /\ shutdown_pc = "idle"
    /\ closed = <<>>
    /\ InitRequests

Next ==
    \E r \in Requests :
        \/ Receive(r)
        \/ VerifyApiKey(r)
        \/ SqlqueryEntry(r)
        \/ Acquire(r)
        \/ MysqlTimeout(r)
        \/ Cancel(r)
        \/ Execute(r)
        \/ Commit(r)
        \/ Fetch(r)
        \/ Encode(r)
        \/ Materialize(r)
        \/ Finally(r)
        \/ RemoveTempFile(r)
        \/ Send(r)

Spec == Init /\ [][Next]_vars

\* one request on its own, over the wider set of inputs
NextSingle ==
    \E r \in {1} :
        \/ ReceiveAny(r)
        \/ VerifyApiKey(r)
        \/ SqlqueryEntry(r)
        \/ Acquire(r)
        \/ MysqlTimeout(r)
        \/ Cancel(r)
        \/ Execute(r)
        \/ Commit(r)
        \/ Fetch(r)
        \/ Encode(r)
        \/ Materialize(r)
        \/ Finally(r)
        \/ RemoveTempFile(r)
        \/ Send(r)

SpecSingle == Init /\ [][NextSingle]_vars

\* the startup handler on its own, from any environment
InitStartup ==
    /\ env \in [Clouds -> EnvValues]
    /\ db_pools = NoPools
    /\ pool = EmptyPool
    /\ startup_pc = "loop"
    /\ startup_i = 1
    /\ shutdown_pc = "idle"
    /\ closed = <<>>
    /\ InitRequests

NextStartup == StartupStep

SpecStartup == InitStartup /\ [][NextStartup]_vars

\* the life of the process without its requests: startup, then shutdown
NextLifecycle == StartupStep \/ ShutdownStep

SpecLifecycle == InitStartup /\ [][NextLifecycle]_vars

(***************************************************************************)
(* Properties.                                                             *)
(***************************************************************************)
\* how often event e is in request r's history
Count(r, e) == Cardinality({i \in 1..Len(log[r]) : log[r][i] = e})

Has(r, e) == Count(r, e) > 0

\* the position of the first e in request r's history (0: none)
First(r, e) ==
    IF Has(r, e) THEN CHOOSE i \in 1..Len(log[r]) :
                        log[r][i] = e /\ \A j \in 1..(i - 1) : log[r][j] # e
    ELSE 0

\* the request got past verify_api_key and the format check
Admitted(r) ==
    /\ pc[r] \notin {"idle", "verify", "handler"}
    /\ VerifyApiKeyResult(req[r].auth) = NoExc
    /\ Fmt(req[r].format) \in {"json", "csv"}

\* the handler has left its try/except/finally
Left(r) == pc[r] \in {"middleware", "send", "done"}

\* the connections of every pool that request r holds
Leases(r) ==
    {<<c, k>> \in Clouds \X (1..DB_POOL_MAX_SIZE) :
        k <= Len(pool[c]) /\ pool[c][k].holder = r}

\* C1: a connection acquired from a pool is released to it exactly once by
\* the time the request ends, on every exit path, also when the mysql
\* per-session timeout step of the acquire is interrupted; never twice, and
\* never left leased.
C1_ReleasedExactlyOnce ==
    \A r \in Requests :
        /\ Count(r, "release") <= 1
        /\ (pc[r] = "done" /\ Has(r, "acquire"))
               => (Count(r, "release") = 1 /\ Leases(r) = {})

\* C2: a transient CSV file a request created no longer exists once the
\* response has completed, whatever happened after its creation, and it is
\* removed after the transmission, not before.
C2_TempFileRemovedAfterSend ==
    \A r \in Requests :
        /\ (pc[r] = "done" /\ tmpfile[r].state # "none")
               => tmpfile[r].state = "removed"
        /\ tmpfile[r].state = "removed" => Has(r, "send")

\* the positions at which sqlquery works on its connection
UsingConnection(r) == pc[r] \in {"execute", "commit", "fetch"}

\* C3: a leased connection is held by one request only: no request runs
\* anything on a connection another request holds or that it has released,
\* and two requests at work never have the same connection.
C3_ExclusiveLease ==
    /\ ~misuse
    /\ \A r \in Requests :
          UsingConnection(r)
              => /\ Holder(connection[r]) = r
                 /\ ~Has(r, "release")
                 /\ \A q \in Requests \ {r} :
                       UsingConnection(q) => connection[q] # connection[r]

\* C3's case: a request is at work on the connection another request used
\* and released before
C3_Witness ==
    \E r \in Requests, q \in Requests :
        /\ r # q
        /\ Has(q, "execute") /\ Has(q, "release")
        /\ pc[r] = "commit"
        /\ connection[r] = connection[q]

\* the place of a step in the order acquire, classify/execute, encode,
\* respond, release/cleanup
Rank(e) ==
    CASE e = "acquire" -> 1
      [] e \in {"execute", "commit", "fetch"} -> 2
      [] e = "encode" -> 3
      [] e = "send" -> 4
      [] e \in {"release", "cleanup"} -> 5

\* C4: the steps of one request happen in the order acquire, execute, encode,
\* respond, release/cleanup: the connection is released and the CSV file
\* removed only after the response has been sent.
C4_RespondBeforeRelease ==
    \A r \in Requests :
        \A i \in 1..Len(log[r]) : \A j \in 1..Len(log[r]) :
            i < j => Rank(log[r][i]) <= Rank(log[r][j])

\* whether sequence s ends with sequence t
EndsWith(s, t) ==
    /\ Len(s) >= Len(t)
    /\ SubSeq(s, Len(s) - Len(t) + 1, Len(s)) = t

\* C5: a request (authenticated, valid format) for a backend name that is no
\* key of db_pools ends with a 500 response whose detail is the "No pool
\* configured" message: nothing is acquired, executed or released, and the
\* handler is not interrupted.
C5_NoPoolConfigured ==
    \A r \in Requests :
        (Admitted(r) /\ req[r].cloud \notin DOMAIN db_pools)
            => /\ log[r] \in {<<>>, <<"send">>}
               /\ connection[r] = NoConn
               /\ Leases(r) = {}
               /\ exc[r].type \in {"none", "HTTPException"}
               /\ Left(r) =>
                     /\ resp[r].kind = "json"
                     /\ resp[r].status_code = 500
                     /\ EndsWith(resp[r].body.detail, NoPoolDetail(req[r].cloud))

\* C5's case: such a request has been answered
C5_Witness ==
    \E r \in Requests :
        /\ pc[r] = "done"
        /\ Admitted(r)
        /\ req[r].cloud \notin DOMAIN db_pools
        /\ resp[r].status_code = 500

\* the rows a response returns: those of the JSON body, or the lines of the
\* file after its header
ReturnedRows(r) ==
    IF resp[r].kind = "file"
    THEN IF tmpfile[r].lines = <<>> THEN <<>> ELSE Tail(tmpfile[r].lines)
    ELSE resp[r].body.rows

\* the response of request r carries rows
RowsResponse(r) ==
    \/ resp[r].kind = "file"
    \/ resp[r].kind = "json" /\ "rows" \in DOMAIN resp[r].body

\* the cap of the format of request r
Cap(r) == IF Fmt(req[r].format) = "json" THEN max_json_rows ELSE max_csv_rows

\* the response says the result was truncated
ReportsTruncated(r) ==
    /\ resp[r].kind = "json"
    /\ "truncated" \in DOMAIN resp[r].body
    /\ resp[r].body.truncated

\* a row as the format of the response of request r carries it: the dict
\* itself in JSON, the line of its cells in CSV
Carried(r, row) ==
    IF resp[r].kind = "file" THEN DataLine(Keys(row), row) ELSE row

\* the first min(trueCount, cap) rows, in their order
CappedRows(r) ==
    [i \in 1..Min(Len(rows[r]), Cap(r)) |-> Carried(r, rows[r][i])]

\* C6: in either format the rows returned are the first min(trueCount, cap)
\* rows in order, and the response reports truncated = true exactly when
\* trueCount exceeds the cap of the format.
C6_TruncationEitherFormat ==
    \A r \in Requests :
        RowsResponse(r)
            => /\ ReturnedRows(r) = CappedRows(r)
               /\ ReportsTruncated(r) <=> (Len(rows[r]) > Cap(r))

\* C6 as the code has it: the rows returned are the first min(trueCount, cap)
\* rows in order in either format; a JSON response reports truncated = true
\* exactly when trueCount exceeds MAX_JSON_ROWS; a CSV response reports no
\* truncation at all.
C6_TruncationJsonFlagOnly ==
    \A r \in Requests :
        RowsResponse(r)
            => /\ ReturnedRows(r) = CappedRows(r)
               /\ Len(ReturnedRows(r)) = Min(Len(rows[r]), Cap(r))
               /\ resp[r].kind = "json"
                     => (resp[r].body.truncated <=> (Len(rows[r]) > max_json_rows))
               /\ resp[r].kind = "file" => ~ReportsTruncated(r)

\* C6's case: a CSV result over its cap has been sent
C6_Witness ==
    \E r \in Requests :
        /\ pc[r] = "done"
        /\ resp[r].kind = "file"
        /\ Len(rows[r]) > max_csv_rows
        /\ Len(ReturnedRows(r)) = max_csv_rows

\* C7: a non-data statement that runs without error is answered by exactly
\* the acknowledgment, in either format and on either engine; no rows are
\* fetched, no file is created, and on mysql the commit follows the execution
\* and precedes the release.
C7_NonDataAck ==
    \A r \in Requests :
        (/\ ~IsDataQuery(req[r].sqlquery)
         /\ Has(r, "execute")
         /\ exc[r] = NoExc
         /\ pc[r] # "commit")
            => /\ resp[r] = AckResponse
               /\ DOMAIN resp[r].body = {"status"}
               /\ ~Has(r, "fetch") /\ rows[r] = <<>>
               /\ tmpfile[r] = NoFile
               /\ Left(r) => Has(r, "release")
               /\ db_type[r] = "mysql"
                     => /\ Has(r, "commit")
                        /\ First(r, "execute") < First(r, "commit")
                        /\ Has(r, "release")
                              => First(r, "commit") < First(r, "release")

\* C7's case: a non-data statement on mysql, asked as csv, answered
C7_Witness ==
    \E r \in Requests :
        /\ pc[r] = "done"
        /\ ~IsDataQuery(req[r].sqlquery)
        /\ db_type[r] = "mysql"
        /\ Fmt(req[r].format) = "csv"
        /\ resp[r] = AckResponse

\* C8: every statement run on a postgresql connection runs in a session with
\* read-only transactions enforced and the statement timeout set, on every
\* lease of the connection.
C8_PgSessionReadOnly ==
    \A r \in Requests :
        (sessionAt[r].ran /\ db_type[r] = "postgresql")
            => (sessionAt[r].read_only /\ sessionAt[r].statement_timeout)

\* the response of request r is a success
Succeeded(r) == Left(r) /\ resp[r].kind # "none" /\ resp[r].status_code = 200

\* C9: no request submits its statement more than once: a success ran it
\* exactly once, and after a failure nothing is executed or acquired again.
C9_NoRetry ==
    \A r \in Requests :
        /\ Count(r, "execute") <= 1
        /\ Count(r, "acquire") <= 1
        /\ Succeeded(r) => Count(r, "execute") = 1
        /\ exc[r] # NoExc => pc[r] \in {"finally", "middleware", "send", "done"}

\* C9's case: a request whose fetch failed has been answered
C9_Witness ==
    \E r \in Requests :
        /\ pc[r] = "done"
        /\ exc[r] = DriverError("fetch failed")
        /\ Count(r, "execute") = 1

\* the backends the claim expects in the mapping
ExpectedPools ==
    {c \in Clouds :
        /\ env[c].set /\ env[c].parses
        /\ HasPostgres(env[c].scheme) \/ HasMysql(env[c].scheme)
        /\ env[c].creates}

\* C10: startup never raises, and when it is over the mapping holds exactly
\* the backends whose variable was set, whose scheme was recognized and whose
\* pool was created, whatever failed for the others.
C10_StartupIsolatesFailures ==
    /\ startup_pc # "raised"
    /\ startup_pc = "done" => DOMAIN db_pools = ExpectedPools


\* the number of close attempts made on the pool of backend c
CloseAttempts(c) == Cardinality({i \in DOMAIN closed : closed[i].cloud = c})

\* C11: at shutdown a close is attempted on every pool of the registry
\* exactly once, whether or not the close of another pool failed, and no
\* error of a close leaves the shutdown handler.
C11_ShutdownClosesEveryPool ==
    /\ shutdown_pc # "raised"
    /\ \A c \in Clouds :
          CloseAttempts(c) <= (IF c \in DOMAIN db_pools THEN 1 ELSE 0)
    /\ shutdown_pc = "done" => \A c \in DOMAIN db_pools : CloseAttempts(c) = 1

\* C11's case: shutdown has returned, and the close of a pool was attempted
\* after the close of an earlier pool had failed
C11_Witness ==
    /\ shutdown_pc = "done"
    /\ \E i, j \in DOMAIN closed : i < j /\ ~closed[i].ok

\* the response sqlquery built from the statement's outcome alone: the 500
\* of the primary error, or the payload of the path the statement took
PrimaryResponse(r) ==
    IF exc[r].type = "CancelledError" THEN NoResp
    ELSE IF exc[r] # NoExc THEN ErrorResponse(500, Str(exc[r]))
    ELSE IF ~Has(r, "encode") THEN AckResponse
    ELSE IF Fmt(req[r].format) = "json" THEN JsonResponse(rows[r])
    ELSE FileResponse

\* the errors the statement's own steps raise
PrimaryErrors ==
    {NoExc, CancelledError} \cup {NoPoolError(c) : c \in AllRequestClouds}
    \cup {DriverError(m) : m \in {"acquire failed", "execute failed",
                                  "commit failed", "fetch failed",
                                  "json.dumps failed", "csv failed",
                                  "write failed"}}

\* C12: a failure of the release of the connection or of the removal of the
\* CSV temp file never changes what the caller gets: the response is the one
\* the statement's outcome alone determines (payload or primary error), and
\* the error of the release or of the removal is never the request's error.
C12_BestEffortFailuresSwallowed ==
    \A r \in Requests :
        (failed[r] \cap {"release", "cleanup"} # {}) =>
            /\ Has(r, "release")
            /\ exc[r] \in PrimaryErrors
            /\ resp[r] = PrimaryResponse(r)

\* C12's case: a request whose release failed and whose temp file's removal
\* failed has been sent its CSV response
C12_Witness ==
    \E r \in Requests :
        /\ pc[r] = "done"
        /\ failed[r] = {"release", "cleanup"}
        /\ resp[r] = FileResponse
        /\ transmit[r] = "ok"

\* the three kinds of rejected Authorization header, in the claim's words
MissingHeader(auth) == auth = NoHeader

BadScheme(auth) ==
    /\ auth # NoHeader
    /\ LowerWord(auth[1]) # "bearer" \/ auth[2] = ""

WrongKey(auth) ==
    /\ auth # NoHeader
    /\ LowerWord(auth[1]) = "bearer"
    /\ auth[2] \notin {"", NonAsciiToken, API_KEY}

Step(r) ==
    \/ VerifyApiKey(r)
    \/ SqlqueryEntry(r)
    \/ Acquire(r)
    \/ MysqlTimeout(r)
    \/ Cancel(r)
    \/ Execute(r)
    \/ Commit(r)
    \/ Fetch(r)
    \/ Encode(r)
    \/ Materialize(r)
    \/ Finally(r)
    \/ RemoveTempFile(r)
    \/ Send(r)

\* request r is between its acquire and its encoding, and waits neither for
\* a free connection of its own backend nor for a backend without a pool
Ready(r) ==
    /\ pc[r] \in {"acquire", "mysql_timeout", "execute", "commit", "fetch", "encode"}
    /\ pc[r] = "acquire" =>
          /\ req[r].cloud \in DOMAIN db_pools
          /\ FreeConns(req[r].cloud) # {}

\* every other request in flight targets another backend than r does
OthersElsewhere(r) ==
    \A q \in Requests \ {r} :
        pc[q] \notin {"idle", "done"} => req[q].cloud # req[r].cloud

\* C14: a request to backend X can take its next step (acquire, execute,
\* encode) whenever X's pool has a free connection, whatever the state of the
\* requests to another backend Y, also while a request to Y is in the middle
\* of writing its CSV file: a request waits for nothing but its own backend's
\* pool and its own I/O.
C14_IndependentProgress ==
    \A r \in Requests :
        Ready(r) /\ OthersElsewhere(r) => ENABLED Step(r)

\* request r passed verify_api_key and the handler is past its format check
PastFormatCheck(r) ==
    /\ pc[r] \notin {"idle", "verify", "handler"}
    /\ VerifyApiKeyResult(req[r].auth) = NoExc

\* request r was refused for its format, before anything was done for it
RefusedForFormat(r) ==
    /\ resp[r] = ErrorResponse(400, <<INVALID_FORMAT_MSG>>)
    /\ log[r] \in {<<>>, <<"send">>}
    /\ connection[r] = NoConn
    /\ Leases(r) = {}
    /\ tmpfile[r] = NoFile

\* C15: a request whose format, compared without regard to letter case, is
\* not one of json and csv fails with status 400, and nothing is done for
\* it: no connection is acquired, no statement is executed, no temp file is
\* created.
C15_InvalidFormatRejected ==
    \A r \in Requests :
        PastFormatCheck(r) /\ LowerWord(req[r].format) \notin {"json", "csv"}
            => RefusedForFormat(r)

\* C15 as the code has it: the same for every format that is not empty; an
\* empty format is taken as json and never refused.
C15_NonEmptyInvalidFormatRejected ==
    \A r \in Requests :
        PastFormatCheck(r) =>
            /\ req[r].format # "" /\ LowerWord(req[r].format) \notin {"json", "csv"}
                  => RefusedForFormat(r)
            /\ req[r].format = "" =>
                  /\ resp[r] # ErrorResponse(400, <<INVALID_FORMAT_MSG>>)
                  /\ tmpfile[r] = NoFile
                  /\ Succeeded(r) /\ Has(r, "encode") => resp[r] = JsonResponse(rows[r])

\* C15's case: a request with a valid key for a backend with a pool, with a
\* data statement and the format XML, has been answered 400
C15_Witness ==
    \E r \in Requests :
        /\ pc[r] = "done"
        /\ req[r].format = "XML"
        /\ req[r].cloud \in DOMAIN db_pools
        /\ IsDataQuery(req[r].sqlquery)
        /\ RefusedForFormat(r)
        /\ transmit[r] = "ok"

\* the text of the error a step of the request raised
ErrorText(e) == IF e.type = "HTTPException" THEN e.detail ELSE <<e.msg>>

\* request r has been given a success payload: the acknowledgment or rows
SuccessPayload(r) ==
    /\ resp[r].kind # "none"
    /\ resp[r].status_code = 200

\* C16: a failure raised by the acquire, execute, commit, fetch or encode of
\* a request gives a 500 response whose detail carries the text of that
\* error; such a request is never given the acknowledgment or a rows payload,
\* and a request that is given a success payload had no such failure.
C16_FailureIs500 ==
    \A r \in Requests :
        /\ exc[r].type \in {"HTTPException", "Exception"} =>
              /\ exc[r] \in PrimaryErrors
              /\ ~SuccessPayload(r)
              /\ Left(r) =>
                    /\ resp[r].kind = "json"
                    /\ resp[r].status_code = 500
                    /\ EndsWith(resp[r].body.detail, ErrorText(exc[r]))
        /\ Left(r) /\ SuccessPayload(r) => exc[r] = NoExc

\* C16's case: a request whose rows were fetched and whose JSON encoding
\* failed has been sent the 500 with the encoder's text
C16_Witness ==
    \E r \in Requests :
        /\ pc[r] = "done"
        /\ Has(r, "fetch")
        /\ exc[r] = DriverError("json.dumps failed")
        /\ resp[r] = ErrorResponse(500, <<"json.dumps failed">>)
        /\ transmit[r] = "ok"

\* the statement text, after its leading whitespace and without regard to
\* letter case, begins with one of the five keywords
StartsWithKeyword(text) ==
    \E kw \in DataKeywords : \E lead \in 0..Len(text) :
        /\ \A i \in 1..lead : text[i] \in Whitespace
        /\ Len(text) >= lead + Len(kw)
        /\ \A j \in 1..Len(kw) : LowerChar(text[lead + j]) = kw[j]

\* request r is on, or went down, the data-returning path: fetch, then encode
OnDataPath(r) ==
    \/ pc[r] \in {"fetch", "encode", "materialize"}
    \/ Has(r, "fetch")
    \/ Has(r, "encode")

\* request r is on, or went down, the non-data path: execute, acknowledge
OnNonDataPath(r) ==
    \/ pc[r] = "commit"
    \/ Has(r, "commit")
    \/ resp[r] = AckResponse

\* C17: a statement takes the data-returning path (fetch all rows, then
\* encode) if and only if its text, trimmed and in lower case, starts with
\* select, show, describe, explain or with; every other statement takes the
\* non-data path (execute, acknowledge); the engine and the format have no
\* part in the decision.
C17_ClassificationByPrefix ==
    \A r \in Requests :
        LET text == req[r].sqlquery
        IN  /\ OnDataPath(r) => StartsWithKeyword(text)
            /\ OnNonDataPath(r) => ~StartsWithKeyword(text)
            /\ Has(r, "execute") /\ exc[r] = NoExc /\ Left(r) =>
                  IF StartsWithKeyword(text)
                  THEN /\ Has(r, "fetch") /\ Has(r, "encode")
                       /\ resp[r] # AckResponse
                  ELSE /\ ~Has(r, "fetch") /\ ~Has(r, "encode")
                       /\ resp[r] = AckResponse

\* C17's case: a statement with leading whitespace and upper-case letters
\* went down the data path on mysql and was sent as CSV
C17_Witness ==
    \E r \in Requests :
        /\ pc[r] = "done"
        /\ req[r].sqlquery = <<"\t", "S", "H", "O", "W">>
        /\ db_type[r] = "mysql"
        /\ log[r] = <<"acquire", "execute", "fetch", "encode", "release", "send">>
        /\ resp[r] = FileResponse

\* C18: for a CSV request over a data-returning statement, a result of zero
\* rows leaves the file, and so the body, empty, without a header line; a
\* result of N rows, N no more than the CSV cap, all with the same keys,
\* gives exactly one header line, the keys of the first row, followed by N
\* data lines in the order of the rows.
C18_CsvBody ==
    \A r \in Requests :
        resp[r].kind = "file" =>
            LET n == Len(rows[r])
                body == tmpfile[r].lines
            IN  /\ IsDataQuery(req[r].sqlquery)
                /\ n = 0 => body = <<>>
                /\ (n >= 1 /\ n <= max_csv_rows) =>
                      /\ Len(body) = n + 1
                      /\ body[1] = HeaderLine(Keys(rows[r][1]))
                      /\ \A i \in 1..n :
                            body[i + 1] = DataLine(Keys(rows[r][1]), rows[r][i])
                      /\ \A i \in 2..(n + 1) : body[i] # body[1]

\* C18's case: a CSV result of as many rows as the cap allows has been sent
C18_Witness ==
    \E r \in Requests :
        /\ pc[r] = "done"
        /\ resp[r].kind = "file"
        /\ Len(rows[r]) = max_csv_rows
        /\ Len(tmpfile[r].lines) = max_csv_rows + 1
        /\ transmit[r] = "ok"

\* C19: on the acquire for a mysql backend a failure of the SET SESSION
\* MAX_EXECUTION_TIME statement is swallowed: the acquire returns the
\* connection that was taken from the pool, the request goes on to execute
\* its statement on it, and the failure never becomes an error response.
C19_TimeoutFailureSwallowed ==
    \A r \in Requests :
        "timeout" \in failed[r] =>
            /\ db_pools[req[r].cloud] = "mysql"
            /\ db_type[r] = "mysql"
            /\ connection[r] # NoConn
            /\ connection[r][1] = req[r].cloud
            /\ pc[r] = "execute" => exc[r] = NoExc /\ Holder(connection[r]) = r
            /\ Has(r, "execute") \/ pc[r] = "execute" \/ exc[r] = CancelledError
            /\ exc[r] \in PrimaryErrors
            /\ Left(r) /\ exc[r] = NoExc => SuccessPayload(r)

\* C19's case: a request whose timeout statement failed has run its data
\* statement and was sent the rows
C19_Witness ==
    \E r \in Requests :
        /\ pc[r] = "done"
        /\ "timeout" \in failed[r]
        /\ resp[r] = JsonResponse(rows[r])
        /\ rows[r] # <<>>
        /\ transmit[r] = "ok"

\* the connections of backend c that are leased to some request
Leased(c) == {k \in 1..Len(pool[c]) : pool[c][k].holder # 0}

\* no request is in flight
Quiescent == \A r \in Requests : pc[r] \in {"idle", "done"}

\* C20: no connection leaks under concurrency: for each backend the number
\* of connections leased to requests never exceeds the maximum size of the
\* pool, and whenever no request is in flight every connection is back in
\* its pool (so that a request waiting on a saturated pool gets a connection
\* in the end).
C20_NoLeak ==
    /\ \A c \in DOMAIN db_pools : Cardinality(Leased(c)) <= DB_POOL_MAX_SIZE
    /\ Quiescent => \A c \in DOMAIN db_pools : Leased(c) = {}

====
